---- MODULE Spec2Model ----
(***************************************************************************)
(* Model of pkg/config/integration_config.go of datadog-log-agent: the    *)
(* discovery of integration yaml files, the validation of log sources and *)
(* processing rules, the tags payload and the LogsRules registry slot.    *)
(*                                                                         *)
(* Go strings and byte slices are sequences of one-character strings.     *)
(* Enumerated settings (source type, rule type) are compared as wholes    *)
(* by the code and are kept as TLA+ strings.                               *)
(***************************************************************************)
EXTENDS Integers, Sequences, FiniteSets, TLC

VARIABLES
    registry,   \* the viper key LOGS_RULES: [set, val], val a sequence of pointers
    heap,       \* pointer -> IntegrationConfigLogSource, for the pointers of registry
    dir,        \* the ddconfdPath directory: [readable, entries]
    pool,       \* the source declarations written to the files of this run
    outcome,    \* how the build call on the present directory ended:
                \* [kind, file, source, msg], kind "none" when it has not run
    got,        \* result of the last GetLogsSources since the last build: [kind, val]
    loaded,     \* history: the sources declared to the most recent successful build
    fnArgs,     \* arguments of the function under check (function specifications)
    fnRet,      \* its result
    pc          \* "idle" (registry machine), "call" or "done" (function specifications)

vars == <<registry, heap, dir, pool, outcome, got, loaded, fnArgs, fnRet, pc>>

machineVars == <<registry, heap, dir, pool, outcome, got, loaded>>
fnVars == <<fnArgs, fnRet, pc>>

----------------------------------------------------------------------------
(* Bounds *)

MaxStrLen == 2      \* length of tags / source / sourceCategory strings
MaxStemLen == 2     \* length of the part of a file name before the suffix
MaxEntries == 2     \* entries of a directory listing (discovery specification)
MaxRules == 2       \* processing rules of one source
MaxFiles == 2       \* yaml files of the directory (registry machine)
MaxSources == 3     \* sources declared in the directory, all files together

----------------------------------------------------------------------------
(* Strings *)

RECURSIVE StrUpTo(_, _)
StrUpTo(chars, n) ==
    IF n = 0 THEN {<<>>}
    ELSE LET shorter == StrUpTo(chars, n - 1)
         IN  shorter \cup {Append(s, c) : s \in shorter, c \in chars}

SeqsUpTo(S, n) == UNION {[1..k -> S] : k \in 0..n}

Range(s) == {s[i] : i \in 1..Len(s)}

\* the constants of the source file
LOGS_RULES == "LogsRules"
TCP_TYPE == "tcp"
UDP_TYPE == "udp"
FILE_TYPE == "file"
EXCLUDE_AT_MATCH == "exclude_at_match"
MASK_SEQUENCES == "mask_sequences"

NoOutcome == [kind |-> "none", file |-> 0, source |-> 0, msg |-> ""]
NoResult == [kind |-> "none", val |-> <<>>]
Absent == [set |-> FALSE, val |-> <<>>]

\* the registry machine at rest, in the specifications of single functions
MachineIdle ==
    /\ registry = Absent
    /\ heap = <<>>
    /\ dir = [readable |-> TRUE, entries |-> <<>>]
    /\ pool = {}
    /\ outcome = NoOutcome
    /\ got = NoResult
    /\ loaded = Absent

----------------------------------------------------------------------------
(* buildTagsPayload *)

SourceOpen == <<"[", "d", "d", " ", "d", "d", "s", "o", "u", "r", "c", "e", "=", "\"">>
CategoryOpen == <<"[", "d", "d", " ", "d", "d", "s", "o", "u", "r", "c", "e",
                  "c", "a", "t", "e", "g", "o", "r", "y", "=", "\"">>
TagsOpen == <<"[", "d", "d", " ", "d", "d", "t", "a", "g", "s", "=", "\"">>
TagClose == <<"\"", "]">>

\* faulty variant: the tags block is appended before the sourcecategory block
buildTagsPayload_TagsFirst(configTags, source, sourceCategory) ==
    LET p1 == IF source # <<>> THEN SourceOpen \o source \o TagClose ELSE <<>>
        p2 == IF configTags # <<>> THEN p1 \o TagsOpen \o configTags \o TagClose ELSE p1
        p3 == IF sourceCategory # <<>>
              THEN p2 \o CategoryOpen \o sourceCategory \o TagClose ELSE p2
    IN  IF Len(p3) = 0 THEN <<"-">> ELSE p3

buildTagsPayload(configTags, source, sourceCategory) ==
    LET p0 == <<>>
        p1 == IF source # <<>> THEN p0 \o SourceOpen \o source \o TagClose ELSE p0
        p2 == IF sourceCategory # <<>>
              THEN p1 \o CategoryOpen \o sourceCategory \o TagClose ELSE p1
        p3 == IF configTags # <<>> THEN p2 \o TagsOpen \o configTags \o TagClose ELSE p2
    IN  IF Len(p3) = 0 THEN <<"-">> ELSE p3

TagChars == {"a", "-", "["}
TagStrings == StrUpTo(TagChars, MaxStrLen)

InitTags ==
    /\ fnArgs \in [tags : TagStrings, source : TagStrings, sourceCategory : TagStrings]
    /\ fnRet = <<>>
    /\ pc = "call"
    /\ MachineIdle

CallBuildTagsPayload ==
    /\ pc = "call"
    /\ fnRet' = buildTagsPayload(fnArgs.tags, fnArgs.source, fnArgs.sourceCategory)
    /\ pc' = "done"
    /\ UNCHANGED <<machineVars, fnArgs>>

NextTags == CallBuildTagsPayload

SpecTags == InitTags /\ [][NextTags]_vars

\* C5: the payload is the source block, then the sourcecategory block, then the
\* tags block, each present exactly when its string is non-empty; it is the
\* single byte '-' exactly when the three strings are empty, and never empty.
TagsPayloadIsOrderedConcatenation ==
    pc = "done" =>
        LET s == fnArgs.source
            c == fnArgs.sourceCategory
            t == fnArgs.tags
            ls == IF s = <<>> THEN 0 ELSE Len(SourceOpen) + Len(s) + Len(TagClose)
            lc == IF c = <<>> THEN 0 ELSE Len(CategoryOpen) + Len(c) + Len(TagClose)
            lt == IF t = <<>> THEN 0 ELSE Len(TagsOpen) + Len(t) + Len(TagClose)
            allEmpty == s = <<>> /\ c = <<>> /\ t = <<>>
        IN  /\ Len(fnRet) > 0
            /\ (fnRet = <<"-">>) <=> allEmpty
            /\ ~allEmpty =>
                /\ Len(fnRet) = ls + lc + lt
                /\ s # <<>> => SubSeq(fnRet, 1, ls) = SourceOpen \o s \o TagClose
                /\ c # <<>> => SubSeq(fnRet, ls + 1, ls + lc) = CategoryOpen \o c \o TagClose
                /\ t # <<>> =>
                     SubSeq(fnRet, ls + lc + 1, ls + lc + lt) = TagsOpen \o t \o TagClose

TagsPayloadWitness ==
    /\ pc = "done"
    /\ fnArgs.source # <<>> /\ fnArgs.sourceCategory # <<>> /\ fnArgs.tags # <<>>
    /\ Len(fnRet) = Len(SourceOpen) + Len(CategoryOpen) + Len(TagsOpen)
                    + Len(fnArgs.source) + Len(fnArgs.sourceCategory) + Len(fnArgs.tags) + 6

----------------------------------------------------------------------------
(* availableIntegrationConfigs *)

\* The name of the deprecated agent configuration. It is declared in another
\* file of package config; the model fixes a short value for it.
DeprecatedConfig == <<"d", "d">>

YamlExt == <<".", "y", "a", "m", "l">>

\* filepath.Ext: the suffix beginning at the final dot, empty when there is no dot
\* (a name returned by ReadDir holds no path separator)
Ext(filename) ==
    LET dots == {i \in 1..Len(filename) : filename[i] = "."}
    IN  IF dots = {} THEN <<>>
        ELSE LET last == CHOOSE i \in dots : \A j \in dots : j <= i
             IN  SubSeq(filename, last, Len(filename))

\* ioutil.ReadDir: the entries of a readable directory, nil when the listing fails
ReadDir(d) == IF d.readable THEN d.entries ELSE <<>>

RECURSIVE availableFrom(_, _)
availableFrom(files, i) ==
    IF i > Len(files) THEN <<>>
    ELSE LET filename == files[i].name
             extension == Ext(filename)
             name == SubSeq(filename, 1, Len(filename) - Len(extension))
         IN  IF extension = YamlExt /\ name # DeprecatedConfig
             THEN <<name>> \o availableFrom(files, i + 1)
             ELSE availableFrom(files, i + 1)

\* faulty variant: the deprecated configuration is not skipped
availableIntegrationConfigs_KeepDeprecated(d) ==
    LET files == ReadDir(d)
        yaml == SelectSeq(files, LAMBDA f : Ext(f.name) = YamlExt)
    IN  [i \in 1..Len(yaml) |-> SubSeq(yaml[i].name, 1, Len(yaml[i].name) - Len(YamlExt))]

availableIntegrationConfigs(d) == availableFrom(ReadDir(d), 1)

StemChars == {"d", "."}
Suffixes == {<<>>, YamlExt, <<".", "y", "m", "l">>, <<"y", "a", "m", "l">>,
             YamlExt \o <<".", "b">>}
FileNames == {st \o sf : st \in StrUpTo(StemChars, MaxStemLen), sf \in Suffixes}

NoLogs(n) == [name |-> n, parses |-> TRUE, logs |-> <<>>]

Listings ==
    {l \in SeqsUpTo({NoLogs(n) : n \in FileNames}, MaxEntries) :
        \A i, j \in 1..Len(l) : i # j => l[i].name # l[j].name}

InitDiscover ==
    /\ fnArgs \in {[readable |-> TRUE, entries |-> l] : l \in Listings}
                  \cup {[readable |-> FALSE, entries |-> <<>>]}
    /\ fnRet = <<>>
    /\ pc = "call"
    /\ MachineIdle

CallAvailableIntegrationConfigs ==
    /\ pc = "call"
    /\ fnRet' = availableIntegrationConfigs(fnArgs)
    /\ pc' = "done"
    /\ UNCHANGED <<machineVars, fnArgs>>

NextDiscover == CallAvailableIntegrationConfigs

SpecDiscover == InitDiscover /\ [][NextDiscover]_vars

EndsWithYaml(n) ==
    /\ Len(n) >= Len(YamlExt)
    /\ SubSeq(n, Len(n) - Len(YamlExt) + 1, Len(n)) = YamlExt

BaseName(n) == SubSeq(n, 1, Len(n) - Len(YamlExt))

\* C9: the discovered names are, in listing order, the base names of the entries
\* that end in .yaml and whose base name is not the deprecated configuration;
\* the deprecated name and entries with another extension are never returned.
DiscoverSelectsYamlNotDeprecated ==
    pc = "done" =>
        LET names == [i \in 1..Len(fnArgs.entries) |-> fnArgs.entries[i].name]
            kept == SelectSeq(names,
                              LAMBDA n : EndsWithYaml(n) /\ BaseName(n) # DeprecatedConfig)
        IN  /\ fnRet = [i \in 1..Len(kept) |-> BaseName(kept[i])]
            /\ DeprecatedConfig \notin Range(fnRet)
            /\ \A i \in 1..Len(fnRet) : fnRet[i] \o YamlExt \in Range(names)

DiscoverWitness ==
    /\ pc = "done"
    /\ Len(fnArgs.entries) > Len(fnRet)
    /\ Len(fnRet) > 0
    /\ \E i \in 1..Len(fnArgs.entries) :
          fnArgs.entries[i].name = DeprecatedConfig \o YamlExt

----------------------------------------------------------------------------
(* validateSource and validateProcessingRules *)

NoError == [err |-> FALSE, msg |-> ""]
Errorf(m) == [err |-> TRUE, msg |-> m]

\* faulty variant: the path of a file source is not checked
validateSource_NoPathCheck(config) ==
    IF config.Type \notin {FILE_TYPE, TCP_TYPE, UDP_TYPE}
    THEN Errorf("A source must have a valid type")
    ELSE IF config.Type = TCP_TYPE /\ config.Port = 0
    THEN Errorf("A tcp source must have a port")
    ELSE IF config.Type = UDP_TYPE /\ config.Port = 0
    THEN Errorf("A udp source must have a port")
    ELSE NoError

\* faulty variant: the port of a udp source is not checked
validateSource_NoUdpPortCheck(config) ==
    IF config.Type \notin {FILE_TYPE, TCP_TYPE, UDP_TYPE}
    THEN Errorf("A source must have a valid type")
    ELSE IF config.Type = FILE_TYPE /\ config.Path = <<>>
    THEN Errorf("A file source must have a path")
    ELSE IF config.Type = TCP_TYPE /\ config.Port = 0
    THEN Errorf("A tcp source must have a port")
    ELSE NoError

validateSource(config) ==
    IF config.Type \notin {FILE_TYPE, TCP_TYPE, UDP_TYPE}
    THEN Errorf("A source must have a valid type")
    ELSE IF config.Type = FILE_TYPE /\ config.Path = <<>>
    THEN Errorf("A file source must have a path")
    ELSE IF config.Type = TCP_TYPE /\ config.Port = 0
    THEN Errorf("A tcp source must have a port")
    ELSE IF config.Type = UDP_TYPE /\ config.Port = 0
    THEN Errorf("A udp source must have a port")
    ELSE NoError

\* Patterns are written over the letters a ( ) : such a pattern is a regular
\* expression exactly when its parentheses are balanced.
RECURSIVE Depths(_, _, _)
Depths(p, i, depth) ==
    IF i > Len(p) THEN <<depth>>
    ELSE <<depth>> \o Depths(p, i + 1,
                             IF p[i] = "(" THEN depth + 1
                             ELSE IF p[i] = ")" THEN depth - 1 ELSE depth)

Compiles(p) ==
    LET ds == Depths(p, 1, 0)
    IN  /\ \A i \in 1..Len(ds) : ds[i] >= 0
        /\ ds[Len(ds)] = 0

\* a nil *regexp.Regexp is <<>>, a compiled one is <<its source>>
NilReg == <<>>

\* regexp.MustCompile: the compiled expression, or a panic
MustCompile(p) ==
    IF Compiles(p) THEN [panics |-> FALSE, reg |-> <<p>>]
    ELSE [panics |-> TRUE, reg |-> NilReg]

\* The loop of validateProcessingRules from rule i on; rules is the slice as
\* modified in place so far.
RECURSIVE validateRulesFrom(_, _)
validateRulesFrom(rules, i) ==
    IF i > Len(rules) THEN [kind |-> "ok", rules |-> rules, msg |-> "", at |-> 0]
    ELSE LET rule == rules[i]
         IN  IF rule.Name = <<>>
             THEN [kind |-> "error", rules |-> <<>>, at |-> i,
                   msg |-> "all log processing rules need a name"]
             ELSE IF rule.Type = EXCLUDE_AT_MATCH
             THEN LET c == MustCompile(rule.Pattern)
                  IN  IF c.panics
                      THEN [kind |-> "panic", rules |-> <<>>, at |-> i, msg |-> "regexp"]
                      ELSE validateRulesFrom([rules EXCEPT ![i].Reg = c.reg], i + 1)
             ELSE IF rule.Type = MASK_SEQUENCES
             THEN LET c == MustCompile(rule.Pattern)
                  IN  IF c.panics
                      THEN [kind |-> "panic", rules |-> <<>>, at |-> i, msg |-> "regexp"]
                      ELSE validateRulesFrom(
                               [rules EXCEPT ![i].Reg = c.reg,
                                             ![i].ReplacePlaceholderBytes =
                                                 rule.ReplacePlaceholder],
                               i + 1)
             ELSE IF rule.Type = ""
             THEN [kind |-> "error", rules |-> <<>>, at |-> i, msg |-> "type must be set"]
             ELSE [kind |-> "error", rules |-> <<>>, at |-> i, msg |-> "type is unsupported"]

validateProcessingRules(rules) == validateRulesFrom(rules, 1)

\* a rule as unmarshalled from yaml: the computed fields are unset
ParsedRule(type, name, pattern, placeholder) ==
    [Type |-> type, Name |-> name, ReplacePlaceholder |-> placeholder,
     Pattern |-> pattern, Reg |-> NilReg, ReplacePlaceholderBytes |-> <<>>]

RuleTypes == {EXCLUDE_AT_MATCH, MASK_SEQUENCES, "", "drop"}
RuleNames == {<<>>, <<"r">>}
Patterns == {<<"a">>, <<"(", "a", ")">>, <<"(">>, <<")", "(">>}
Placeholders == {<<>>, <<"*">>}

ParsedRules ==
    {ParsedRule(t, n, p, h) : t \in RuleTypes, n \in RuleNames,
                              p \in Patterns, h \in Placeholders}

InitRules ==
    /\ fnArgs \in SeqsUpTo(ParsedRules, MaxRules)
    /\ fnRet = <<>>
    /\ pc = "call"
    /\ MachineIdle

CallValidateProcessingRules ==
    /\ pc = "call"
    /\ fnRet' = validateProcessingRules(fnArgs)
    /\ pc' = "done"
    /\ UNCHANGED <<machineVars, fnArgs>>

NextRules == CallValidateProcessingRules

SpecRules == InitRules /\ [][NextRules]_vars

MalformedRule(r) ==
    /\ r.Name # <<>>
    /\ r.Type \in {EXCLUDE_AT_MATCH, MASK_SEQUENCES}
    /\ ~Compiles(r.Pattern)

\* C2: a named exclude_at_match or mask_sequences rule whose pattern does not
\* compile makes validateProcessingRules return an error; it never panics.
MalformedPatternReturnsError ==
    (pc = "done" /\ \E i \in 1..Len(fnArgs) : MalformedRule(fnArgs[i]))
        => fnRet.kind = "error"

\* C10: a rule with an empty name makes validateProcessingRules return an error,
\* whatever its type and its pattern are.
EmptyNameReturnsError ==
    (pc = "done" /\ \E i \in 1..Len(fnArgs) : fnArgs[i].Name = <<>>)
        => fnRet.kind = "error"

----------------------------------------------------------------------------
(* buildLogsAgentIntegrationsConfig and getLogsSources *)

\* a source as unmarshalled from yaml: TagsPayload is unset
ParsedSource(type, port, path, source, category, tags, rules) ==
    [Type |-> type, Port |-> port, Path |-> path, Service |-> <<>>, Logset |-> <<>>,
     Source |-> source, SourceCategory |-> category, Tags |-> tags,
     TagsPayload |-> <<>>, ProcessingRules |-> rules]

\* viperCfg.ReadInConfig and Unmarshal of the discovered file named file: the
\* directory entry file.yaml, which parses into its logs or fails
ReadInConfig(d, file) ==
    LET e == CHOOSE e \in Range(d.entries) : e.name = file \o YamlExt
    IN  [err |-> ~e.parses, Logs |-> e.logs]

\* faulty variant: the address of the range variable, which all iterations of one loop share
CopyVar_RangeVariable(h, rangeVar) == rangeVar

\* logSourceConfig := logSourceConfigIterator declares a variable of its own in
\* every iteration; h is the heap so far, the result the address of the copy
CopyVar(h, rangeVar) == Len(h) + 1

Store(h, ptr, v) == IF ptr <= Len(h) THEN [h EXCEPT ![ptr] = v] ELSE Append(h, v)

Failed(kind, j, msg) == [kind |-> kind, source |-> j, msg |-> msg, ptrs |-> <<>>, heap |-> <<>>]

\* The inner loop from source j on. ptrs is logsSourceConfigs and h the objects
\* it points to.
RECURSIVE loadSourcesFrom(_, _, _, _, _)
loadSourcesFrom(logs, j, ptrs, h, rangeVar) ==
    IF j > Len(logs)
    THEN [kind |-> "ok", source |-> 0, msg |-> "", ptrs |-> ptrs, heap |-> h]
    ELSE LET logSourceConfig == logs[j]
             err == validateSource(logSourceConfig)
             checked == validateProcessingRules(logSourceConfig.ProcessingRules)
         IN  IF err.err THEN Failed("error", j, err.msg)
             ELSE IF checked.kind # "ok" THEN Failed(checked.kind, j, checked.msg)
             ELSE LET built ==
                          [logSourceConfig EXCEPT
                              !.ProcessingRules = checked.rules,
                              !.TagsPayload =
                                  buildTagsPayload(logSourceConfig.Tags,
                                                   logSourceConfig.Source,
                                                   logSourceConfig.SourceCategory)]
                      ptr == CopyVar(h, rangeVar)
                  IN  loadSourcesFrom(logs, j + 1, Append(ptrs, ptr),
                                      Store(h, ptr, built), rangeVar)

\* The outer loop from file i on.
RECURSIVE loadFilesFrom(_, _, _, _, _)
loadFilesFrom(d, files, i, ptrs, h) ==
    IF i > Len(files)
    THEN [kind |-> "ok", file |-> 0, source |-> 0, msg |-> "", ptrs |-> ptrs, heap |-> h]
    ELSE LET integrationConfig == ReadInConfig(d, files[i])
         IN  IF integrationConfig.err
             THEN [kind |-> "error", file |-> i, source |-> 0, msg |-> "parse",
                   ptrs |-> <<>>, heap |-> <<>>]
             ELSE LET r == loadSourcesFrom(integrationConfig.Logs, 1, ptrs, h, Len(h) + 1)
                  IN  IF r.kind # "ok"
                      THEN [kind |-> r.kind, file |-> i, source |-> r.source,
                            msg |-> r.msg, ptrs |-> <<>>, heap |-> <<>>]
                      ELSE loadFilesFrom(d, files, i + 1, r.ptrs, r.heap)

\* faulty variant: the new aggregate is added to the one of the slot
Set_Merge(config, ptrs, h) ==
    [registry |-> [set |-> TRUE,
                   val |-> config.registry.val
                           \o [k \in 1..Len(ptrs) |-> ptrs[k] + Len(config.heap)]],
     heap |-> config.heap \o h]

\* config.Set(LOGS_RULES, logsSourceConfigs): the slot holds the new slice; the
\* objects of the slice it held are no longer reachable from the registry
Set(config, ptrs, h) ==
    [registry |-> [set |-> TRUE, val |-> ptrs], heap |-> h]

\* faulty variant: the slot is written with what was aggregated, whatever the loops returned
Publish_Always(config, r) == Set(config, r.ptrs, r.heap)

\* lines 111-112 are reached only when no return statement of the loops ran
Publish(config, r) == IF r.kind = "ok" THEN Set(config, r.ptrs, r.heap) ELSE config

buildLogsAgentIntegrationsConfig(config, d) ==
    LET integrationConfigYamlFiles == availableIntegrationConfigs(d)
        r == loadFilesFrom(d, integrationConfigYamlFiles, 1, <<>>, <<>>)
    IN  [config |-> Publish(config, r),
         result |-> [kind |-> r.kind, file |-> r.file, source |-> r.source, msg |-> r.msg]]

\* faulty variant: an absent slot reads as the empty slice
getLogsSources_EmptyWhenAbsent(config) == [kind |-> "ok", val |-> config.registry.val]

\* config.Get(LOGS_RULES).([]*IntegrationConfigLogSource): the type assertion
\* panics on the nil that Get returns for a key that was never set
getLogsSources(config) ==
    IF config.registry.set THEN [kind |-> "ok", val |-> config.registry.val]
    ELSE [kind |-> "panic", val |-> <<>>]

----------------------------------------------------------------------------
(* The registry machine: the directory changes, builds and reads follow *)

ValidRule == ParsedRule(EXCLUDE_AT_MATCH, <<"r">>, <<"(", "a", ")">>, <<>>)
MaskRule == ParsedRule(MASK_SEQUENCES, <<"r">>, <<"a">>, <<"*">>)

FileSource == ParsedSource(FILE_TYPE, 0, <<"/">>, <<"a">>, <<>>, <<>>, <<ValidRule>>)
TcpSource == ParsedSource(TCP_TYPE, 1, <<>>, <<>>, <<"a">>, <<"a">>, <<MaskRule>>)
UdpSource == ParsedSource(UDP_TYPE, 1, <<>>, <<>>, <<>>, <<>>, <<>>)

BrokenSources ==
    {ParsedSource("http", 1, <<"/">>, <<>>, <<>>, <<>>, <<>>),
     ParsedSource("", 1, <<"/">>, <<>>, <<>>, <<>>, <<>>),
     ParsedSource(FILE_TYPE, 1, <<>>, <<>>, <<>>, <<>>, <<>>),
     ParsedSource(TCP_TYPE, 0, <<"/">>, <<>>, <<>>, <<>>, <<>>),
     ParsedSource(UDP_TYPE, 0, <<"/">>, <<>>, <<>>, <<>>, <<>>),
     ParsedSource(FILE_TYPE, 0, <<"/">>, <<>>, <<>>, <<>>,
                  <<ValidRule, ParsedRule(MASK_SEQUENCES, <<"r">>, <<"(">>, <<>>)>>),
     ParsedSource(FILE_TYPE, 0, <<"/">>, <<>>, <<>>, <<>>,
                  <<ParsedRule(EXCLUDE_AT_MATCH, <<>>, <<"(">>, <<>>)>>),
     ParsedSource(TCP_TYPE, 1, <<>>, <<>>, <<>>, <<>>,
                  <<ParsedRule("drop", <<"r">>, <<"a">>, <<>>)>>)}

\* the declarations a run draws from: two well-formed sources, or a well-formed
\* and a broken one
Pools == {{FileSource, TcpSource}} \cup {{UdpSource, b} : b \in BrokenSources}

\* the entries a directory may hold, in the order ReadDir lists them (by name)
EntryNames ==
    <<<<"a">> \o YamlExt, <<"b">> \o YamlExt, <<"c", ".", "y", "m", "l">>,
      DeprecatedConfig \o YamlExt>>

NameIndex(n) == CHOOSE k \in 1..Len(EntryNames) : EntryNames[k] = n

RECURSIVE CountSources(_, _)
CountSources(entries, i) ==
    IF i > Len(entries) THEN 0 ELSE Len(entries[i].logs) + CountSources(entries, i + 1)

Init ==
    /\ registry = Absent
    /\ heap = <<>>
    /\ dir = [readable |-> TRUE, entries |-> <<>>]
    /\ pool \in Pools
    /\ outcome = NoOutcome
    /\ got = NoResult
    /\ loaded = Absent
    /\ fnArgs = <<>>
    /\ fnRet = <<>>
    /\ pc = "idle"

\* a file appears in the directory, after the entries already listed
AddFile ==
    /\ pc = "idle"
    /\ Len(dir.entries) < MaxFiles
    /\ \E k \in 1..Len(EntryNames), parses \in BOOLEAN :
          /\ \A i \in 1..Len(dir.entries) : NameIndex(dir.entries[i].name) < k
          /\ dir' = [dir EXCEPT !.entries =
                        Append(@, [name |-> EntryNames[k], parses |-> parses,
                                   logs |-> <<>>])]
    /\ outcome' = NoOutcome
    /\ got' = NoResult
    /\ UNCHANGED <<registry, heap, pool, loaded, fnVars>>

\* a source is declared at the end of the last file
AppendSource ==
    /\ pc = "idle"
    /\ Len(dir.entries) > 0
    /\ dir.entries[Len(dir.entries)].parses
    /\ CountSources(dir.entries, 1) < MaxSources
    /\ \E s \in pool :
          dir' = [dir EXCEPT !.entries[Len(dir.entries)].logs = Append(@, s)]
    /\ outcome' = NoOutcome
    /\ got' = NoResult
    /\ UNCHANGED <<registry, heap, pool, loaded, fnVars>>

\* the directory is removed or made unreadable, or restored
SetReadable ==
    /\ pc = "idle"
    /\ dir' = [dir EXCEPT !.readable = ~@]
    /\ outcome' = NoOutcome
    /\ got' = NoResult
    /\ UNCHANGED <<registry, heap, pool, loaded, fnVars>>

\* the entries of the directory that are integration configurations
Discovered(d) ==
    IF d.readable
    THEN SelectSeq(d.entries,
                   LAMBDA e : EndsWithYaml(e.name) /\ BaseName(e.name) # DeprecatedConfig)
    ELSE <<>>

RECURSIVE Flatten(_, _)
Flatten(entries, i) ==
    IF i > Len(entries) THEN <<>> ELSE entries[i].logs \o Flatten(entries, i + 1)

\* the sources the integration configurations declare, file by file
Aggregate(d) == Flatten(Discovered(d), 1)

\* BuildLogsAgentIntegrationsConfigs(ddconfdPath). A caller that recovers from a
\* panic goes on with the registry as the panic left it.
BuildLogsAgentIntegrationsConfigs ==
    /\ pc = "idle"
    /\ outcome.kind = "none"
    /\ LET b == buildLogsAgentIntegrationsConfig([registry |-> registry, heap |-> heap], dir)
       IN  /\ registry' = b.config.registry
           /\ heap' = b.config.heap
           /\ outcome' = b.result
           /\ loaded' = IF b.result.kind = "ok"
                        THEN [set |-> TRUE,
                              val |-> Aggregate(dir)]
                        ELSE loaded
    /\ got' = NoResult
    /\ UNCHANGED <<dir, pool, fnVars>>

GetLogsSources ==
    /\ pc = "idle"
    /\ got.kind = "none"
    /\ got' = getLogsSources([registry |-> registry, heap |-> heap])
    /\ UNCHANGED <<registry, heap, dir, pool, outcome, loaded, fnVars>>

Next ==
    \/ AddFile
    \/ AppendSource
    \/ SetReadable
    \/ BuildLogsAgentIntegrationsConfigs
    \/ GetLogsSources

Spec == Init /\ [][Next]_vars

----------------------------------------------------------------------------
(* Properties of the registry machine *)

Deref(ptrs) == [k \in 1..Len(ptrs) |-> heap[ptrs[k]]]

\* a registered source without its computed fields: the declaration it came from
Declaration(s) ==
    [s EXCEPT !.TagsPayload = <<>>,
              !.ProcessingRules =
                  [k \in 1..Len(s.ProcessingRules) |->
                      [s.ProcessingRules[k] EXCEPT !.Reg = NilReg,
                                                   !.ReplacePlaceholderBytes = <<>>]]]

Declarations(ss) == [k \in 1..Len(ss) |-> Declaration(ss[k])]

BadSource(s) ==
    \/ s.Type \notin {FILE_TYPE, TCP_TYPE, UDP_TYPE}
    \/ s.Type = FILE_TYPE /\ s.Path = <<>>
    \/ s.Type \in {TCP_TYPE, UDP_TYPE} /\ s.Port = 0

GoodRule(r) ==
    /\ r.Name # <<>>
    /\ r.Type \in {EXCLUDE_AT_MATCH, MASK_SEQUENCES}
    /\ Compiles(r.Pattern)

GoodSource(s) ==
    /\ ~BadSource(s)
    /\ \A k \in 1..Len(s.ProcessingRules) : GoodRule(s.ProcessingRules[k])

SourceMessages ==
    {"A source must have a valid type", "A file source must have a path",
     "A tcp source must have a port", "A udp source must have a port"}

\* C1: a build that returns an error leaves the registry slot, and the sources
\* it points to, exactly as they were before the call.
FailedBuildKeepsRegistry ==
    [][(outcome.kind = "none" /\ outcome'.kind = "error")
          => (registry' = registry /\ heap' = heap)]_vars

FailedBuildWitness ==
    /\ outcome.kind = "error"
    /\ outcome.source > 1
    /\ registry.set
    /\ Len(registry.val) > 0

\* C3: a build never succeeds when a discovered file declares a source with an
\* unknown type, a file source without path or a tcp/udp source with port 0;
\* when every file and source before the first such source is sound, the build
\* stops there with the error of that source.
BadSourceStopsBuild ==
    outcome.kind # "none" =>
        LET files == Discovered(dir)
        IN  \A i \in 1..Len(files) : \A j \in 1..Len(files[i].logs) :
                BadSource(files[i].logs[j]) =>
                    /\ outcome.kind # "ok"
                    /\ ( /\ \A h \in 1..(i - 1) :
                               /\ files[h].parses
                               /\ \A k \in 1..Len(files[h].logs) :
                                      GoodSource(files[h].logs[k])
                         /\ \A k \in 1..(j - 1) : GoodSource(files[i].logs[k]) )
                       => /\ outcome.kind = "error"
                          /\ outcome.file = i
                          /\ outcome.source = j
                          /\ outcome.msg \in SourceMessages

BadSourceWitness ==
    /\ outcome.kind = "error"
    /\ outcome.file = 2
    /\ outcome.source = 2
    /\ outcome.msg = "A udp source must have a port"

\* C4: every source the registry slot holds has a type among file, tcp, udp, a
\* path if it is a file, a port if it is tcp or udp, and rules that all have a
\* name, a supported type and a compiled expression.
RegisteredSourcesWellFormed ==
    registry.set =>
        \A k \in 1..Len(registry.val) :
            /\ registry.val[k] \in 1..Len(heap)
            /\ LET s == heap[registry.val[k]]
               IN  /\ s.Type \in {FILE_TYPE, TCP_TYPE, UDP_TYPE}
                   /\ s.Type = FILE_TYPE => s.Path # <<>>
                   /\ s.Type \in {TCP_TYPE, UDP_TYPE} => s.Port # 0
                   /\ \A n \in 1..Len(s.ProcessingRules) :
                         LET r == s.ProcessingRules[n]
                         IN  /\ r.Name # <<>>
                             /\ r.Type \in {EXCLUDE_AT_MATCH, MASK_SEQUENCES}
                             /\ r.Reg = <<r.Pattern>>
                             /\ Compiles(r.Pattern)

RegisteredSourcesWitness ==
    /\ registry.set
    /\ outcome.kind = "error"
    /\ \E k \in 1..Len(registry.val) :
          /\ heap[registry.val[k]].Type = FILE_TYPE
          /\ Len(heap[registry.val[k]].ProcessingRules) > 0

\* C6: after a successful build the slot holds one entry per declared source of
\* the discovered files, in file order and then declaration order, each entry
\* an object of its own.
AggregateKeepsOrder ==
    outcome.kind = "ok" =>
        LET want == Aggregate(dir)
        IN  /\ Len(registry.val) = Len(want)
            /\ \A k, n \in 1..Len(registry.val) :
                   k # n => registry.val[k] # registry.val[n]
            /\ \A k \in 1..Len(registry.val) :
                   /\ registry.val[k] \in 1..Len(heap)
                   /\ Declaration(heap[registry.val[k]]) = want[k]

AggregateOrderWitness ==
    /\ outcome.kind = "ok"
    /\ Len(Discovered(dir)) = 2
    /\ Len(Discovered(dir)[1].logs) = 2
    /\ Len(Discovered(dir)[2].logs) = 1
    /\ Len(registry.val) = 3
    /\ heap[registry.val[1]] # heap[registry.val[2]]
    /\ heap[registry.val[3]] = heap[registry.val[1]]

\* C7: a successful build leaves in the slot the aggregate of that build and
\* nothing else; a build that discovers no file succeeds and leaves the empty
\* sequence.
SuccessfulBuildReplaces ==
    outcome.kind # "none" =>
        /\ outcome.kind = "ok" =>
              /\ registry.set
              /\ Declarations(Deref(registry.val)) = Aggregate(dir)
              /\ Len(heap) = Len(registry.val)
        /\ Discovered(dir) = <<>> =>
              /\ outcome.kind = "ok"
              /\ registry = [set |-> TRUE, val |-> <<>>]

SuccessfulBuildWitness ==
    /\ outcome.kind = "ok"
    /\ ~dir.readable
    /\ CountSources(dir.entries, 1) > 0
    /\ registry = [set |-> TRUE, val |-> <<>>]

\* C8: GetLogsSources panics when no build has succeeded yet; after a successful
\* build it returns the sequence of the most recent successful build, whatever
\* builds failed since.
GetReturnsLastSuccessfulBuild ==
    got.kind # "none" =>
        IF loaded.set
        THEN /\ got.kind = "ok"
             /\ Declarations(Deref(got.val)) = loaded.val
        ELSE got.kind = "panic"

GetAfterFailedBuildWitness ==
    /\ got.kind = "ok"
    /\ Len(got.val) > 0
    /\ outcome.kind = "error"

====
